---- MODULE Spec2Model ----
(***************************************************************************)
(* CollegePredictor: the school-profile resolver (School_profiles.py) and  *)
(* the admissions score calculator (AdmissionCalculator.py).               *)
(*                                                                         *)
(* Floats are fixed-point integers in thousandths: 1.0 is ONE, 3.4 is      *)
(* 3400.  A product of two fixed-point numbers is Mul, a quotient is Div.  *)
(***************************************************************************)
EXTENDS Integers, Sequences, FiniteSets, TLC

ONE == 1000

Mul(a, b) == (a * b) \div ONE
Div(a, b) == (a * ONE) \div b
Min(a, b) == IF b < a THEN b ELSE a

\* Python's None in an Optional[float] / Optional[int] field
None == 0 - 1

(***************************************************************************)
(* Bounds                                                                  *)
(***************************************************************************)
MaxResolves == 4
MaxCalls == 3

(***************************************************************************)
(* School_profiles.py                                                      *)
(***************************************************************************)
\* the two ids of the usage example, and a third one
SchoolIds == {"nces_12345", "unknown_HS_456", "HS_123"}
\* the id the usage example resolves as a school no source knows
UnknownIds == {"unknown_HS_456"}

\* the averages a scraped page may state ("Average GPA: x")
ScrapedGpas == {2900, 3600}

SchoolProfile(id, name, gpa_mean, gpa_std, ap_courses, data_source) ==
    [id |-> id, name |-> name, gpa_mean |-> gpa_mean, gpa_std |-> gpa_std,
     competitiveness |-> None, ap_courses |-> ap_courses,
     data_source |-> data_source]

\* Optional[SchoolProfile]: <<>> is None, <<p>> is the profile p
NoProfile == << >>
Some(p) == <<p>>

\* round(x, 1) on thousandths
Round1(x) == ((x + 50) \div 100) * 100

_uc_eligibility_to_gpa(eligibility_rate) ==
    Round1(3000 + Mul(eligibility_rate, 700))

\* Each source returns [exc, value]: exc is TRUE when an exception leaves the
\* method, value is the Optional[SchoolProfile] it returns otherwise.
\* raises: the body of the try block raised, which the except clause turns
\* into "no data".  The NCES and CDE bodies are mocks of a remote call: as
\* written they answer for every school_id, and raises = FALSE is what they
\* do when run; raises = TRUE is the failure their except clause is for.
_get_nces_data(school_id, raises) ==
    IF raises
    THEN [exc |-> FALSE, value |-> NoProfile]
    ELSE [exc |-> FALSE,
          value |-> Some(SchoolProfile(school_id, "Sample High School",
                                       3400, 300, 15, "nces"))]

_get_cde_data(school_id, raises) ==
    IF raises
    THEN [exc |-> FALSE, value |-> NoProfile]
    ELSE [exc |-> FALSE,
          value |-> Some(SchoolProfile(school_id, "CA Sample High",
                                       _uc_eligibility_to_gpa(720), 250, 22,
                                       "cde"))]

\* _scrape_school_data without its except clause
_scrape_school_data_unhandled(school_id, raises, gpa_mean) ==
    IF raises
    THEN [exc |-> TRUE, value |-> NoProfile]
    ELSE [exc |-> FALSE,
          value |-> Some(SchoolProfile(school_id, "Scraped School",
                                       gpa_mean, 300, None, "web_scraping"))]

\* raises: requests.get, soup.find(...).text or float(...) raised;
\* otherwise gpa_mean is the average the page states.
_scrape_school_data(school_id, raises, gpa_mean) ==
    IF raises
    THEN [exc |-> FALSE,
          value |-> Some(SchoolProfile(school_id, "Unknown School",
                                       None, None, None, "unknown"))]
    ELSE [exc |-> FALSE,
          value |-> Some(SchoolProfile(school_id, "Scraped School",
                                       gpa_mean, 300, None, "web_scraping"))]

\* _estimate_gpa_stats that estimates the mean only
_estimate_gpa_stats_mean_only(profile) ==
    IF profile.ap_courses # None /\ profile.ap_courses # 0
    THEN [profile EXCEPT !.gpa_mean = 3200 + profile.ap_courses * 20]
    ELSE [profile EXCEPT !.gpa_mean = 3000]

_estimate_gpa_stats(profile) ==
    IF profile.ap_courses # None /\ profile.ap_courses # 0
    THEN [profile EXCEPT !.gpa_mean = 3200 + profile.ap_courses * 20,
                         !.gpa_std = 350]
    ELSE [profile EXCEPT !.gpa_mean = 3000, !.gpa_std = 400]

\* the chain with the regional registry ahead of the national one
SourceChain_cde_first(school_id, nces_raises, cde_raises, scrape_raises, gpa_mean) ==
    LET n == _get_nces_data(school_id, nces_raises)
        c == _get_cde_data(school_id, cde_raises)
        w == _scrape_school_data(school_id, scrape_raises, gpa_mean)
    IN  IF c.exc \/ c.value # NoProfile
        THEN [exc |-> c.exc, value |-> c.value, consulted |-> <<"cde">>]
        ELSE IF n.exc \/ n.value # NoProfile
        THEN [exc |-> n.exc, value |-> n.value,
              consulted |-> <<"cde", "nces">>]
        ELSE [exc |-> w.exc, value |-> w.value,
              consulted |-> <<"cde", "nces", "web_scraping">>]

\* profile = nces(...) or cde(...) or scrape(...): the operands are evaluated
\* left to right and the first truthy one is the value.  None is falsy, a
\* SchoolProfile object is truthy.  consulted lists the sources called.
SourceChain(school_id, nces_raises, cde_raises, scrape_raises, gpa_mean) ==
    LET n == _get_nces_data(school_id, nces_raises)
        c == _get_cde_data(school_id, cde_raises)
        w == _scrape_school_data(school_id, scrape_raises, gpa_mean)
    IN  IF n.exc \/ n.value # NoProfile
        THEN [exc |-> n.exc, value |-> n.value, consulted |-> <<"nces">>]
        ELSE IF c.exc \/ c.value # NoProfile
        THEN [exc |-> c.exc, value |-> c.value,
              consulted |-> <<"nces", "cde">>]
        ELSE [exc |-> w.exc, value |-> w.value,
              consulted |-> <<"nces", "cde", "web_scraping">>]

VARIABLES
    cache,        \* SchoolProfileBuilder.cache: school_id -> SchoolProfile
    resolves,     \* number of get_school_profile calls made
    callCount,    \* per school_id, the calls made
    chainCalls,   \* per school_id, the calls that went to the source chain
    firstResult,  \* per school_id, what the first call returned
    lastCall      \* the last get_school_profile call and its result

resolverVars ==
    <<cache, resolves, callCount, chainCalls, firstResult, lastCall>>

NoCall ==
    [school_id |-> "", outcome |-> "none", hit |-> FALSE,
     profile |-> NoProfile, consulted |-> << >>, estimated |-> FALSE,
     nces_raises |-> FALSE, cde_raises |-> FALSE, scrape_raises |-> FALSE]

InitResolver ==
    /\ cache = [k \in {} |-> NoProfile]
    /\ resolves = 0
    /\ callCount = [i \in SchoolIds |-> 0]
    /\ chainCalls = [i \in SchoolIds |-> 0]
    /\ firstResult = [i \in SchoolIds |-> NoProfile]
    /\ lastCall = NoCall

\* get_school_profile that forgets to store the profile
CachePut_dropped(c, school_id, profile) == c

\* self.cache[school_id] = profile
CachePut(c, school_id, profile) ==
    [k \in DOMAIN c \cup {school_id} |->
        IF k = school_id THEN profile ELSE c[k]]

\* the part of get_school_profile after a cache miss: [exc, profile,
\* consulted, estimated]
ResolveMiss(school_id, nces_raises, cde_raises, scrape_raises, gpa_mean) ==
    LET r == SourceChain(school_id, nces_raises, cde_raises, scrape_raises,
                         gpa_mean)
    IN  IF r.exc \/ r.value = NoProfile
        \* a source raised, or profile is None and profile.gpa_mean raises
        THEN [exc |-> TRUE, profile |-> NoProfile, consulted |-> r.consulted,
              estimated |-> FALSE]
        ELSE IF r.value[1].gpa_mean = None
        THEN [exc |-> FALSE,
              profile |-> Some(_estimate_gpa_stats(r.value[1])),
              consulted |-> r.consulted, estimated |-> TRUE]
        ELSE [exc |-> FALSE, profile |-> r.value, consulted |-> r.consulted,
              estimated |-> FALSE]

get_school_profile(school_id, nces_raises, cde_raises, scrape_raises, gpa_mean) ==
    /\ resolves < MaxResolves
    /\ resolves' = resolves + 1
    /\ callCount' = [callCount EXCEPT ![school_id] = @ + 1]
    /\ IF school_id \in DOMAIN cache
       THEN /\ lastCall' = [school_id |-> school_id, outcome |-> "returned",
                            hit |-> TRUE, profile |-> Some(cache[school_id]),
                            consulted |-> << >>, estimated |-> FALSE,
                            nces_raises |-> nces_raises,
                            cde_raises |-> cde_raises,
                            scrape_raises |-> scrape_raises]
            /\ UNCHANGED <<cache, chainCalls, firstResult>>
       ELSE LET m == ResolveMiss(school_id, nces_raises, cde_raises,
                                 scrape_raises, gpa_mean)
            IN  /\ chainCalls' = [chainCalls EXCEPT ![school_id] = @ + 1]
                /\ lastCall' = [school_id |-> school_id,
                                outcome |-> IF m.exc THEN "raised"
                                                     ELSE "returned",
                                hit |-> FALSE, profile |-> m.profile,
                                consulted |-> m.consulted,
                                estimated |-> m.estimated,
                                nces_raises |-> nces_raises,
                                cde_raises |-> cde_raises,
                                scrape_raises |-> scrape_raises]
                /\ cache' = IF m.exc THEN cache
                            ELSE CachePut(cache, school_id, m.profile[1])
                /\ firstResult' =
                       IF callCount[school_id] = 0
                       THEN [firstResult EXCEPT ![school_id] = m.profile]
                       ELSE firstResult

(***************************************************************************)
(* AdmissionCalculator.py                                                  *)
(***************************************************************************)
\* dict.get(key, default)
Get(d, key, default) == IF key \in DOMAIN d THEN d[key] ELSE default

EmptyDict == [k \in {} |-> 0]

\* sum(f[k] for k in S)
RECURSIVE SumOver(_, _)
SumOver(f, S) ==
    IF S = {} THEN 0
    ELSE LET k == CHOOSE x \in S : TRUE
         IN  f[k] + SumOver(f, S \ {k})

\* 1 / (1 + np.exp(-z)), to the thousandth, z taken down to the half unit
\* below it; the entries are the logistic function at -6.0, -5.5, ..., 6.0
SigmoidTable ==
    <<2, 4, 7, 11, 18, 29, 47, 76, 119, 182, 269, 378, 500,
      622, 731, 818, 881, 924, 953, 971, 982, 989, 993, 996, 998>>

Sigmoid(z) ==
    IF z < 0 - 6000 THEN 0
    ELSE IF z > 6000 THEN ONE
    ELSE SigmoidTable[((z + 6000) \div 500) + 1]

\* What a method does: exc is "" when it returns, else the exception that
\* leaves it; log is the audit entries (action, metadata) it appended.
Returned(v, entries) == [exc |-> "", value |-> v, log |-> entries]
Raised(e, entries) == [exc |-> e, value |-> 0, log |-> entries]

Entry(action, metadata) == [action |-> action, metadata |-> metadata]

normalize_gpa(school_profiles, student) ==
    LET school_profile ==
            Get(school_profiles, student.context.school_id, EmptyDict)
    IN  IF DOMAIN school_profile = {}
        THEN Returned((student.academic.gpa * ONE) \div 4000,
                      <<Entry("missing_school_profile",
                              [school |-> student.context.school_id])>>)
        ELSE LET school_mean == Get(school_profile, "gpa_mean", 3000)
                 school_std == Get(school_profile, "gpa_std", 500)
             IN  IF school_std = 0
                 THEN Raised("ZeroDivisionError", << >>)
                 ELSE Returned(
                        Sigmoid(Div(student.academic.gpa - school_mean,
                                    school_std)),
                        << >>)

calculate_academic_score(school_profiles, student) ==
    LET g == normalize_gpa(school_profiles, student)
    IN  IF g.exc # "" THEN g
        ELSE LET gpa_score == g.value
                 test_score == (student.academic.test_scores * ONE) \div 1600
                 school_competitiveness ==
                     Get(Get(school_profiles, student.context.school_id,
                             EmptyDict),
                         "competitiveness", ONE)
                 academic_score ==
                     Mul(Mul(gpa_score, 600) + Mul(test_score, 400),
                         school_competitiveness)
             IN  Returned(Min(academic_score, ONE),
                          g.log \o
                          <<Entry("academic_score_calculated",
                                  [gpa_score |-> gpa_score,
                                   test_score |-> test_score,
                                   final_score |-> academic_score])>>)

calculate_mission_fit(mission_metrics, student) ==
    LET fit_score ==
            SumOver([m \in DOMAIN mission_metrics |->
                        Mul(Get(student.mission_alignment, m, 0),
                            mission_metrics[m])],
                    DOMAIN mission_metrics)
        total == SumOver(mission_metrics, DOMAIN mission_metrics)
    IN  IF total = 0
        THEN Raised("ZeroDivisionError", << >>)
        ELSE Returned(Div(fit_score, total), << >>)

check_legal_compliance(student) == TRUE

apply_context_modifiers(student, base_score) ==
    LET adjustments ==
            (IF Get(student.context, "low_income", FALSE) THEN 50 ELSE 0)
            + Mul(Get(student.context, "adversity_score", 0), 100)
            + (IF check_legal_compliance(student)
               THEN Mul(Get(student.context, "underrepresented_group", 0), 30)
               ELSE 0)
    IN  Returned(Min(base_score + adjustments, ONE),
                 <<Entry("context_adjustments_applied",
                         [base_score |-> base_score,
                          adjustments |-> adjustments])>>)

calculate_confidence_score(student) == 800

analyze_intersectionality(student) ==
    IF /\ Get(student.context, "adversity_score", 0) > 700
       /\ Get(student.contributions, "leadership", 0) > 500
    THEN 50
    ELSE 0

\* classify_application with the Target confidence gate the wrong way round
classify_application_flipped(thresholds, score, confidence) ==
    IF score >= thresholds.Safety /\ confidence >= 700 THEN "Safety"
    ELSE IF score >= thresholds.Target /\ confidence <= 500 THEN "Target"
    ELSE IF score >= thresholds.Reach THEN "Reach"
    ELSE "Below Threshold"

classify_application(thresholds, score, confidence) ==
    IF score >= thresholds.Safety /\ confidence >= 700 THEN "Safety"
    ELSE IF score >= thresholds.Target /\ confidence >= 500 THEN "Target"
    ELSE IF score >= thresholds.Reach THEN "Reach"
    ELSE "Below Threshold"

\* base_score of calculate_total_score
BaseScore(weights, academic, contributions, mission_fit) ==
    Mul(academic, weights.academic)
    + Mul(contributions, weights.contributions)
    + Mul(mission_fit, weights.mission_fit)

\* final_score without its cap
FinalScore_uncapped(context_adjusted, intersection_bonus) ==
    context_adjusted + intersection_bonus

\* final_score of calculate_total_score
FinalScore(context_adjusted, intersection_bonus) ==
    Min(context_adjusted + intersection_bonus, ONE)

\* the whole of calculate_total_score: value is the dict it returns
TotalScore(weights, mission_metrics, school_profiles, thresholds, student) ==
    LET a == calculate_academic_score(school_profiles, student)
    IN  IF a.exc # "" THEN a
        ELSE
        LET academic == a.value
            contributions == student.contributions.total
            m == calculate_mission_fit(mission_metrics, student)
        IN  IF m.exc # "" THEN Raised(m.exc, a.log \o m.log)
            ELSE
            LET mission_fit == m.value
                base_score ==
                    BaseScore(weights, academic, contributions, mission_fit)
                c == apply_context_modifiers(student, base_score)
                context_adjusted == c.value
                intersection_bonus == analyze_intersectionality(student)
                confidence == calculate_confidence_score(student)
                final_score == FinalScore(context_adjusted, intersection_bonus)
            IN  Returned(
                  [final_score |-> final_score,
                   confidence |-> confidence,
                   category |-> classify_application(thresholds, final_score,
                                                     confidence),
                   component_scores |->
                       [academic |-> academic,
                        contributions |-> contributions,
                        mission_fit |-> mission_fit]],
                  a.log \o m.log \o c.log)

\* log_audit that inserts the entry at the front
log_audit_front(log, now, action, metadata) ==
    <<[timestamp |-> now, action |-> action, metadata |-> metadata]>> \o log

\* self.audit_log.append({'timestamp': now, 'action': ..., 'metadata': ...})
log_audit(log, now, action, metadata) ==
    Append(log, [timestamp |-> now, action |-> action,
                 metadata |-> metadata])

\* the log_audit calls of one method call, in the order they were made; the
\* clock is read once per entry
RECURSIVE LogAll(_, _, _)
LogAll(log, now, entries) ==
    IF entries = << >> THEN log
    ELSE LogAll(log_audit(log, now, Head(entries).action,
                          Head(entries).metadata),
                now + 1, Tail(entries))

\* institution configurations: the one of the usage example, one whose
\* weights sum to 3, and mission metrics that sum to 0
ExampleWeights == [academic |-> 400, contributions |-> 300, mission_fit |-> 300]
HeavyWeights == [academic |-> 1000, contributions |-> 1000, mission_fit |-> 1000]
WeightChoices == {ExampleWeights, HeavyWeights}

ExampleMetrics == [diversity |-> 400, community_impact |-> 600]
ZeroMetrics == [diversity |-> 0, community_impact |-> 0]
CancellingMetrics == [diversity |-> 500, community_impact |-> 0 - 500]
MissionChoices == {ExampleMetrics, ZeroMetrics, CancellingMetrics}

\* the two schools of the usage example, a school whose grades do not vary,
\* and a school whose profile gives its competitiveness only
ExampleProfiles ==
    [HS_123 |-> [gpa_mean |-> 3800, gpa_std |-> 200, competitiveness |-> 1200],
     HS_456 |-> [gpa_mean |-> 3400, gpa_std |-> 400, competitiveness |-> 900],
     HS_777 |-> [gpa_mean |-> 3500, gpa_std |-> 0, competitiveness |-> 1000],
     HS_999 |-> [competitiveness |-> 1500]]

DefaultThresholds == [Safety |-> 700, Target |-> 500, Reach |-> 300]

Student(academic_data, context_data, contributions, mission_alignment) ==
    [academic |-> academic_data, context |-> context_data,
     contributions |-> contributions,
     mission_alignment |-> mission_alignment]

\* the student of the usage example, at each kind of school
ExampleStudent(school_id) ==
    Student([gpa |-> 3700, test_scores |-> 1450],
            [school_id |-> school_id, low_income |-> TRUE,
             adversity_score |-> 800],
            [total |-> 850, leadership |-> 900],
            [diversity |-> 700, community_impact |-> 800])

\* a student with every adjustment at its maximum
TopStudent(school_id) ==
    Student([gpa |-> 4400, test_scores |-> 1600],
            [school_id |-> school_id, low_income |-> TRUE,
             adversity_score |-> 1000, underrepresented_group |-> 1000],
            [total |-> 1000, leadership |-> 1000],
            [diversity |-> 1000, community_impact |-> 1000])

\* a student whose record has the required keys only
PlainStudent(school_id) ==
    Student([gpa |-> 2000, test_scores |-> 800],
            [school_id |-> school_id],
            [total |-> 200],
            EmptyDict)

Students ==
    {ExampleStudent("HS_123"), ExampleStudent("HS_777"),
     ExampleStudent("HS_000"),
     TopStudent("HS_999"), TopStudent("HS_000"),
     PlainStudent("HS_456"), PlainStudent("HS_000")}

VARIABLES
    weights,          \* self.weights
    mission_metrics,  \* self.mission_metrics
    school_profiles,  \* self.school_profiles
    thresholds,       \* self.thresholds
    audit_log,        \* self.audit_log
    historical_data,  \* self.historical_data
    clock,            \* datetime.now(), as the number of readings so far
    calls,            \* number of calls made on the calculator
    lastScore         \* the last calculator call and what it returned

calcVars ==
    <<weights, mission_metrics, school_profiles, thresholds, audit_log,
      historical_data, clock, calls, lastScore>>

NoScore ==
    [op |-> "none", exc |-> "", student |-> << >>, result |-> << >>,
     appended |-> << >>]

\* AdmissionsCalculator(institution_weights, mission_metrics, school_profiles)
InitCalculator(institution_weights, metrics, profiles) ==
    /\ weights = institution_weights
    /\ mission_metrics = metrics
    /\ school_profiles = profiles
    /\ audit_log = << >>
    /\ historical_data = << >>
    /\ thresholds = DefaultThresholds
    /\ clock = 0
    /\ calls = 0
    /\ lastScore = NoScore

calculate_total_score(student) ==
    LET r == TotalScore(weights, mission_metrics, school_profiles,
                        thresholds, student)
    IN  /\ calls < MaxCalls
        /\ calls' = calls + 1
        /\ audit_log' = LogAll(audit_log, clock, r.log)
        /\ clock' = clock + Len(r.log)
        /\ lastScore' = [op |-> "calculate_total_score", exc |-> r.exc,
                         student |-> <<student>>,
                         result |-> IF r.exc = "" THEN <<r.value>>
                                                  ELSE << >>,
                         appended |-> r.log]
        /\ UNCHANGED <<weights, mission_metrics, school_profiles, thresholds,
                       historical_data>>

update_weights(new_weights) ==
    /\ calls < MaxCalls
    /\ calls' = calls + 1
    /\ weights' = new_weights
    /\ audit_log' = log_audit(audit_log, clock, "weights_updated",
                              [new_weights |-> new_weights])
    /\ clock' = clock + 1
    /\ lastScore' = [op |-> "update_weights", exc |-> "", student |-> << >>,
                     result |-> << >>,
                     appended |-> <<Entry("weights_updated",
                                          [new_weights |-> new_weights])>>]
    /\ UNCHANGED <<mission_metrics, school_profiles, thresholds,
                   historical_data>>

add_historical_data(student_data, admission_outcome) ==
    /\ calls < MaxCalls
    /\ calls' = calls + 1
    /\ historical_data' = Append(historical_data,
                                 [student |-> student_data,
                                  outcome |-> admission_outcome,
                                  timestamp |-> clock])
    /\ clock' = clock + 1
    /\ lastScore' = [op |-> "add_historical_data", exc |-> "",
                     student |-> <<student_data>>, result |-> << >>,
                     appended |-> << >>]
    /\ UNCHANGED <<weights, mission_metrics, school_profiles, thresholds,
                   audit_log>>

(***************************************************************************)
(* classify_application as a function of its arguments: two applications   *)
(* are classified, the second with a score and a confidence at least as    *)
(* high as the first.                                                      *)
(***************************************************************************)
Scores == {0 - 100, 0, 299, 300, 499, 500, 699, 700, 1000, 1200}
Confidences == {0, 499, 500, 699, 700, 800, 1000}

VARIABLES
    probe,     \* the arguments (s1, c1) and (s2, c2)
    category   \* << >>, or the categories of the two applications

classifyVars == <<probe, category>>

vars == <<resolverVars, calcVars, classifyVars>>

IdleProbe == [s1 |-> 0, c1 |-> 0, s2 |-> 0, c2 |-> 0]

InitClassify ==
    /\ probe \in {p \in [s1 : Scores, c1 : Confidences,
                         s2 : Scores, c2 : Confidences] :
                     p.s1 <= p.s2 /\ p.c1 <= p.c2}
    /\ category = << >>

Classify ==
    /\ category = << >>
    /\ category' = <<classify_application(thresholds, probe.s1, probe.c1),
                     classify_application(thresholds, probe.s2, probe.c2)>>
    /\ UNCHANGED probe

(***************************************************************************)
(* Specifications                                                          *)
(***************************************************************************)
ExampleCalculator ==
    InitCalculator(ExampleWeights, ExampleMetrics, ExampleProfiles)

\* the resolver alone
NextResolver ==
    \E school_id \in SchoolIds, nces_raises \in BOOLEAN,
       cde_raises \in BOOLEAN, scrape_raises \in BOOLEAN,
       gpa_mean \in ScrapedGpas :
        /\ get_school_profile(school_id, nces_raises, cde_raises,
                              scrape_raises, gpa_mean)
        /\ UNCHANGED <<calcVars, classifyVars>>

InitOfResolver ==
    /\ InitResolver
    /\ ExampleCalculator
    /\ probe = IdleProbe /\ category = << >>

SpecResolver == InitOfResolver /\ [][NextResolver]_vars

\* the calculator alone
CalculateTotalScore ==
    \E student \in Students :
        /\ calculate_total_score(student)
        /\ UNCHANGED <<resolverVars, classifyVars>>

UpdateWeights ==
    \E new_weights \in WeightChoices :
        /\ update_weights(new_weights)
        /\ UNCHANGED <<resolverVars, classifyVars>>

AddHistoricalData ==
    \E student \in Students, admission_outcome \in BOOLEAN :
        /\ add_historical_data(student, admission_outcome)
        /\ UNCHANGED <<resolverVars, classifyVars>>

NextCalc == CalculateTotalScore \/ UpdateWeights \/ AddHistoricalData

InitOfCalc ==
    /\ InitResolver
    /\ \E w \in WeightChoices, m \in MissionChoices :
          InitCalculator(w, m, ExampleProfiles)
    /\ probe = IdleProbe /\ category = << >>

SpecCalc == InitOfCalc /\ [][NextCalc]_vars

\* classify_application alone
NextClassify == Classify /\ UNCHANGED <<resolverVars, calcVars>>

InitOfClassify ==
    /\ InitResolver
    /\ ExampleCalculator
    /\ InitClassify

SpecClassify == InitOfClassify /\ [][NextClassify]_vars

\* the whole program
Init ==
    /\ InitResolver
    /\ \E w \in WeightChoices, m \in MissionChoices :
          InitCalculator(w, m, ExampleProfiles)
    /\ InitClassify

Next == NextResolver \/ NextCalc \/ NextClassify

Spec == Init /\ [][Next]_vars

(***************************************************************************)
(* Properties of the resolver                                              *)
(***************************************************************************)
Populated(p) == p.gpa_mean # None /\ p.gpa_std # None

\* C1: two resolutions of one school_id return the same profile, the source
\* chain runs at most once per school_id, and every call after the first
\* for a school_id is a cache hit that consults no source.
C1_ResolvedOncePerSchool ==
    /\ \A i \in SchoolIds : chainCalls[i] <= 1
    /\ lastCall.outcome = "returned"
          => lastCall.profile = firstResult[lastCall.school_id]
    /\ (lastCall.outcome # "none" /\ callCount[lastCall.school_id] >= 2)
          => (lastCall.hit /\ lastCall.consulted = << >>)

\* a second resolution, made while the first source would now fail
C1_Witness ==
    /\ lastCall.outcome = "returned"
    /\ callCount[lastCall.school_id] >= 2
    /\ lastCall.hit
    /\ lastCall.nces_raises
    /\ lastCall.profile[1].data_source = "nces"

\* C4: resolving the unknown school_id yields gpa_mean = 3.0 and
\* gpa_std = 0.4, on every resolution.
C4_UnknownSchoolIsEstimated ==
    (lastCall.outcome # "none" /\ lastCall.school_id \in UnknownIds)
       => /\ lastCall.outcome = "returned"
          /\ lastCall.profile[1].gpa_mean = 3000
          /\ lastCall.profile[1].gpa_std = 400

\* C7: every profile returned and every profile in the cache has gpa_mean
\* and gpa_std populated.
C7_ProfilesPopulated ==
    /\ lastCall.outcome = "returned" => Populated(lastCall.profile[1])
    /\ \A k \in DOMAIN cache : Populated(cache[k])

\* a profile that no source filled in, returned and cached
C7_Witness ==
    /\ lastCall.outcome = "returned"
    /\ lastCall.estimated
    /\ lastCall.school_id \in DOMAIN cache
    /\ cache[lastCall.school_id].data_source = "unknown"

\* C8: whatever the sources do, get_school_profile returns a SchoolProfile
\* and raises nothing.
C8_ResolveIsTotal ==
    lastCall.outcome # "none"
       => (lastCall.outcome = "returned" /\ lastCall.profile # NoProfile)

\* a call during which all three sources failed
C8_Witness ==
    /\ lastCall.outcome = "returned"
    /\ ~lastCall.hit
    /\ lastCall.nces_raises /\ lastCall.cde_raises /\ lastCall.scrape_raises

\* C9: on a miss the sources are consulted in the order NCES, CDE, scraping,
\* each only when the ones before it gave nothing; the profile is that of
\* the first source that gave data; the estimate is applied only when all
\* three gave no gpa_mean.
C9_SourcePriority ==
    (lastCall.outcome # "none" /\ ~lastCall.hit)
       => /\ lastCall.consulted =
                IF ~lastCall.nces_raises THEN <<"nces">>
                ELSE IF ~lastCall.cde_raises THEN <<"nces", "cde">>
                ELSE <<"nces", "cde", "web_scraping">>
          /\ lastCall.outcome = "returned"
          /\ lastCall.profile[1].data_source =
                IF ~lastCall.nces_raises THEN "nces"
                ELSE IF ~lastCall.cde_raises THEN "cde"
                ELSE IF ~lastCall.scrape_raises THEN "web_scraping"
                ELSE "unknown"
          /\ lastCall.estimated
                => (/\ lastCall.nces_raises
                    /\ lastCall.cde_raises
                    /\ lastCall.scrape_raises)

\* a miss that went down to the scraper, which had data
C9_Witness ==
    /\ lastCall.outcome = "returned"
    /\ ~lastCall.hit
    /\ lastCall.consulted = <<"nces", "cde", "web_scraping">>
    /\ lastCall.profile[1].data_source = "web_scraping"
    /\ ~lastCall.estimated

(***************************************************************************)
(* Properties of the calculator                                            *)
(***************************************************************************)
Scored == lastScore.op = "calculate_total_score"

\* the school profile normalize_gpa finds for the student is missing or empty
ProfileAbsent(student) ==
    DOMAIN Get(school_profiles, student.context.school_id, EmptyDict) = {}

\* C2: a final_score that is returned is at most 1.0.
C2_FinalScoreCapped ==
    (Scored /\ lastScore.exc = "")
       => lastScore.result[1].final_score <= ONE

\* a score whose base and adjustments add up to more than 1.0, with the
\* intersectionality bonus awarded on top
C2_Witness ==
    /\ Scored /\ lastScore.exc = ""
    /\ lastScore.result[1].final_score = ONE
    /\ analyze_intersectionality(lastScore.student[1]) > 0
    /\ \E i \in 1..Len(lastScore.appended) :
          /\ lastScore.appended[i].action = "context_adjustments_applied"
          /\ lastScore.appended[i].metadata.base_score
                + lastScore.appended[i].metadata.adjustments > ONE

\* C5: with mission_metrics weights that sum to 0, calculate_total_score
\* ends in a ConfigError and returns no score.
C5_ZeroWeightsIsConfigError ==
    (/\ Scored
     /\ SumOver(mission_metrics, DOMAIN mission_metrics) = 0
     /\ ~(~ProfileAbsent(lastScore.student[1])
          /\ Get(school_profiles[lastScore.student[1].context.school_id],
                 "gpa_std", 500) = 0))
       => (lastScore.exc = "ConfigError" /\ lastScore.result = << >>)

\* C6: with a school profile whose gpa_std is 0, scoring ends in a
\* data-quality error raised by a guard, not in a division by zero.
C6_ZeroStdIsDataQualityError ==
    (/\ Scored
     /\ ~ProfileAbsent(lastScore.student[1])
     /\ Get(school_profiles[lastScore.student[1].context.school_id],
            "gpa_std", 500) = 0)
       => (lastScore.exc = "DataQualityError" /\ lastScore.result = << >>)

IsPrefix(a, b) == Len(a) <= Len(b) /\ SubSeq(b, 1, Len(a)) = a

\* the actions of the entries a step added to the log
AddedActions ==
    [i \in 1..(Len(audit_log') - Len(audit_log)) |->
        audit_log'[Len(audit_log) + i].action]

\* the entries one calculate_total_score call appends, in order
ScoreEntries(student) ==
    (IF ProfileAbsent(student) THEN <<"missing_school_profile">> ELSE << >>)
    \o <<"academic_score_calculated", "context_adjustments_applied">>

\* C10: every step leaves the old audit log as a prefix of the new one, and
\* a calculate_total_score call appends missing_school_profile (only when
\* the profile is absent), academic_score_calculated and
\* context_adjustments_applied in that order.
C10_AuditLogAppendOnly ==
    [][/\ Len(audit_log) <= Len(audit_log')
       /\ IsPrefix(audit_log, audit_log')
       /\ (calls' # calls /\ lastScore'.op = "calculate_total_score")
             => /\ IsPrefix(AddedActions,
                            ScoreEntries(lastScore'.student[1]))
                /\ lastScore'.exc = ""
                      => AddedActions = ScoreEntries(lastScore'.student[1])
       /\ (calls' # calls /\ lastScore'.op = "add_historical_data")
             => audit_log' = audit_log]_vars

\* a log that holds a weights update followed by the three entries of one
\* score of a student whose school has no profile
C10_Witness ==
    /\ Len(audit_log) >= 4
    /\ audit_log[1].action = "weights_updated"
    /\ audit_log[2].action = "missing_school_profile"
    /\ audit_log[3].action = "academic_score_calculated"
    /\ audit_log[4].action = "context_adjustments_applied"
    /\ audit_log[1].timestamp < audit_log[4].timestamp

(***************************************************************************)
(* Properties of classify_application                                      *)
(***************************************************************************)
Rank(c) ==
    CASE c = "Below Threshold" -> 0
      [] c = "Reach" -> 1
      [] c = "Target" -> 2
      [] c = "Safety" -> 3

\* C3: with s1 <= s2 and c1 <= c2, the category of (s2, c2) is not below
\* the category of (s1, c1).
C3_ClassifyMonotonic ==
    category # << >> => Rank(category[1]) <= Rank(category[2])

\* raising the confidence alone lifts an application from Reach to Safety
C3_Witness ==
    /\ category = <<"Reach", "Safety">>
    /\ probe.s1 = probe.s2
    /\ probe.c1 < probe.c2

====
